---- MODULE Spec2Model ----
(***************************************************************************)
(* Model of change_zip_ext.py: a batch tool that renames files to another  *)
(* extension.  The filesystem `fs` is the whole directory tree, from the   *)
(* root "/" down: a function from keys to entries (a regular file with a   *)
(* content identity and a ZIP validity, or a directory).  The key of an    *)
(* entry below the working directory is its path from the working          *)
(* directory ("a.zip", "sub/x"); the key of every other entry, the working *)
(* directory's own among them, is "../" followed by its path from the root *)
(* ("../d", "../g/x").  The root has no key.  Every key's directory is a   *)
(* key too.  The process is in the directory whose entry is WorkDir: /d    *)
(* when it starts, elsewhere once a rename has moved that directory.  A    *)
(* directory that was replaced while the process was in it stays in fs     *)
(* with the mark Deleted after its name: no path leads to it, "." and ".." *)
(* still work inside.  There are no symbolic or hard links and no          *)
(* permissions.  Names and strings are sequences of one-character strings  *)
(* so that pathlib's stem / suffix / with_suffix / with_name and glob's    *)
(* matching are computed as the libraries compute them.  A Path is         *)
(* [abs, dir, name]: `abs` tells whether it starts at the root, `name` is  *)
(* its final component and `dir` the sequence of the components before it; *)
(* "." and ".." are components like any other name until the path is       *)
(* walked or resolved.  The relative path without a name is Path('') or    *)
(* Path('.'), the absolute one Path('/'); a path that starts with exactly  *)
(* two slashes keeps them as an empty first component of `dir`.  `out` is  *)
(* the standard output.                                                    *)
(***************************************************************************)
EXTENDS Integers, Sequences, FiniteSets, TLC

VARIABLES
  fs,          \* the directory tree: key -> entry
  fs0,         \* the directory tree before the run
  fsLog,       \* fsLog[k]: the directory tree just before the k-th call of change_extension
  args,        \* the command line: the fields argparse reads from it, and `fault`,
               \* how argparse ends it when it does not parse
  pc,          \* where main is: "start", "loop", "done", "raised" (an exception
               \* escaped), "exited" (argparse ended the process); for direct
               \* calls of the library functions: "nap", "returned"
  files,       \* the resolved list of line 173
  idx,         \* the loop's position in files
  out,         \* the lines printed so far
  oks,         \* the success flags returned so far
  overall_ok,  \* line 179 / 189
  exit,        \* the process exit status, -1 while running
  passed,      \* passed[k]: the path of the k-th call and the entry there at call time
  nap          \* the direct call of next_available_path or safe_replace

vars == <<fs, fs0, fsLog, args, pc, files, idx, out, oks, overall_ok, exit, passed, nap>>

\* ------------------------------------------------------------------ bounds

\* Largest number of input tokens (positional paths plus --pattern values).
MaxInputs == 2

\* Largest numeric suffix a name of the probed directory carries before the
\* call of next_available_path.
MaxSuffix == 2

\* ------------------------------------------------------------- file names

A_ZIP   == <<"a", ".", "z", "i", "p">>
A_TXT   == <<"a", ".", "t", "x", "t">>
A_BEN   == <<"a", ".", "b", "e", "n">>
A_1_BEN == <<"a", "-", "1", ".", "b", "e", "n">>
A_2_BEN == <<"a", "-", "2", ".", "b", "e", "n">>
A_BARE  == <<"a">>
STAR_ZIP == <<"*", ".", "z", "i", "p">>
CLASS_BEN == <<"*", ".", "b", "[", "a", "-", "f", "]", "n">>

\* Target extensions as the user may type them after --to.
EXT_BEN     == <<"b", "e", "n">>
EXT_PADDED  == <<" ", ".", "b", "e", "n", "\r">>
EXT_BLANK   == <<" ", "\f">>
EXT_DOT     == <<".">>

\* ------------------------------------------------------------- characters

\* The printable ASCII characters in code-point order, from U+0020 to U+007E.
\* A character that cannot stand in a string is written "U+" and its code
\* point in hexadecimal.
Ascii ==
  << " ", "!", "\"", "#", "$", "%", "&", "'", "(", ")", "*", "+", ",", "-", ".", "/",
     "0", "1", "2", "3", "4", "5", "6", "7", "8", "9", ":", ";", "<", "=", ">", "?",
     "@", "A", "B", "C", "D", "E", "F", "G", "H", "I", "J", "K", "L", "M", "N", "O",
     "P", "Q", "R", "S", "T", "U", "V", "W", "X", "Y", "Z", "[", "\\", "]", "^", "_",
     "U+0060", "a", "b", "c", "d", "e", "f", "g", "h", "i", "j", "k", "l", "m", "n", "o",
     "p", "q", "r", "s", "t", "u", "v", "w", "x", "y", "z", "{", "|", "}", "~" >>

\* The characters str.isspace() holds for besides the space, each with its
\* code point.
OtherSpaces ==
  << <<"\t", 9>>, <<"\n", 10>>, <<"U+000B", 11>>, <<"\f", 12>>, <<"\r", 13>>,
     <<"U+001C", 28>>, <<"U+001D", 29>>, <<"U+001E", 30>>, <<"U+001F", 31>>, <<"U+0085", 133>>,
     <<"U+00A0", 160>>, <<"U+1680", 5760>>, <<"U+2000", 8192>>, <<"U+2001", 8193>>, <<"U+2002", 8194>>,
     <<"U+2003", 8195>>, <<"U+2004", 8196>>, <<"U+2005", 8197>>, <<"U+2006", 8198>>, <<"U+2007", 8199>>,
     <<"U+2008", 8200>>, <<"U+2009", 8201>>, <<"U+200A", 8202>>, <<"U+2028", 8232>>, <<"U+2029", 8233>>,
     <<"U+202F", 8239>>, <<"U+205F", 8287>>, <<"U+3000", 12288>> >>

\* The code point of each character above.
CodePoint ==
  [c \in {Ascii[i] : i \in 1..Len(Ascii)} \cup {OtherSpaces[i][1] : i \in 1..Len(OtherSpaces)} |->
     IF \E i \in 1..Len(Ascii) : Ascii[i] = c
     THEN 31 + (CHOOSE i \in 1..Len(Ascii) : Ascii[i] = c)
     ELSE (CHOOSE e \in {OtherSpaces[i] : i \in 1..Len(OtherSpaces)} : e[1] = c)[2]]

\* ord(c)
Ord(c) == CodePoint[c]

\* What str.strip() removes.
Whitespace == {" "} \cup {OtherSpaces[i][1] : i \in 1..Len(OtherSpaces)}

\* ---------------------------------------------------------------- strings

SetMin(S) == CHOOSE x \in S : \A y \in S : x <= y

Contains(s, c) == \E i \in 1..Len(s) : s[i] = c

\* s[:-1] and s[-1]
Front(s) == SubSeq(s, 1, Len(s) - 1)

Last(s) == s[Len(s)]

\* str.rfind('/') as a 1-based position, 0 when there is no slash.
RFindSlash(s) ==
  LET slashes == {i \in 1..Len(s) : s[i] = "/"}
  IN  IF slashes = {} THEN 0 ELSE CHOOSE i \in slashes : \A j \in slashes : j <= i

\* The components of a string between its slashes, the empty ones left out.
RECURSIVE Split(_)
Split(s) ==
  LET slashes == {i \in 1..Len(s) : s[i] = "/"}
      first == SetMin(slashes)
  IN  IF s = <<>> THEN <<>>
      ELSE IF slashes = {} THEN <<s>>
      ELSE (IF first = 1 THEN <<>> ELSE <<SubSeq(s, 1, first - 1)>>)
             \o Split(SubSeq(s, first + 1, Len(s)))

NonEmpty(c) == c # <<>>

NotDot(c) == c # <<".">>

\* The sequences of a sequence of sequences, one after the other.
RECURSIVE Concat(_)
Concat(ss) == IF ss = <<>> THEN <<>> ELSE Head(ss) \o Concat(Tail(ss))

\* ---------------------------------------------------------------- entries

ZipFile(id)   == [kind |-> "file", id |-> id, zip |-> TRUE]
PlainFile(id) == [kind |-> "file", id |-> id, zip |-> FALSE]
Directory     == [kind |-> "dir",  id |-> 0,  zip |-> FALSE]
NoEntry       == [kind |-> "none", id |-> 0,  zip |-> FALSE]

\* The entry of the directory the process is in.
WorkDir       == [kind |-> "dir",  id |-> -1, zip |-> FALSE]

\* The name of the working directory when the process starts: it is /d.
DIR == <<"d">>

\* ------------------------------------------------------------------- keys

\* The mark after the name of a directory that was replaced while the process
\* was in it: no component of a path equals a name that carries it.
Deleted == " (deleted)"

\* The root directory, as a key spelled from the root.
RootKey == <<"../">>

\* The key of fs for the entry `n` of the root directory.
ParentKey(n) == RootKey \o n

\* Where the working directory is: its key, spelled from the root.
WorkDirKey(f) == CHOOSE k \in DOMAIN f : f[k] = WorkDir

\* Whether the directory at a key spelled from the root has been replaced.
IsDeleted(a) == a[Len(a)] = Deleted

\* The key k of fs spelled from the root, the working directory being at w.
FullKey(k, w) == IF k # <<>> /\ Head(k) = "../" THEN k ELSE w \o <<"/">> \o k

\* Whether b, spelled from the root, is a or below a.
Under(a, b) ==
  \/ b = a
  \/ a = RootKey
  \/ Len(b) > Len(a) /\ SubSeq(b, 1, Len(a)) = a /\ b[Len(a) + 1] = "/"

\* Whether b is below a.
Above(a, b) == a # b /\ Under(a, b)

\* The key of fs for j, spelled from the root, when the working directory is
\* at w.
Restored(j, w) == IF Above(w, j) THEN SubSeq(j, Len(w) + 2, Len(j)) ELSE j

Lookup(k, f) == IF k \in DOMAIN f THEN f[k] ELSE NoEntry

\* What is at a key spelled from the root, NoEntry when nothing.
EntryOf(a, f) == IF a = RootKey THEN Directory ELSE Lookup(Restored(a, WorkDirKey(f)), f)

KindAt(a, f) == EntryOf(a, f).kind

\* The directory that holds a: "..".  The root holds itself.
Up(a) ==
  LET i == RFindSlash(a)
  IN  IF a = RootKey THEN a ELSE IF i = 0 THEN RootKey ELSE SubSeq(a, 1, i - 1)

\* The key of name n in directory a.
Child(a, n) == IF a = RootKey THEN a \o n ELSE a \o <<"/">> \o n

\* The name an entry has in its directory.
NameOf(a) ==
  LET i == RFindSlash(a)
  IN  SubSeq(a, IF i = 0 THEN 2 ELSE i + 1, Len(a))

\* One component of a path taken from directory a.
Step(a, c) ==
  IF c = <<".">> THEN a
  ELSE IF c = <<".", ".">> THEN Up(a)
  ELSE Child(a, c)

\* The walk of the components from a: [err, key].  A component can only be
\* taken from a directory that exists: ENOENT from nothing, ENOTDIR from a
\* regular file.  The key the walk ends at may hold nothing.
RECURSIVE Walk(_, _, _)
Walk(a, comps, f) ==
  LET kind == KindAt(a, f)
  IN  IF comps = <<>> THEN [err |-> "", key |-> a]
      ELSE IF kind = "none" THEN [err |-> "ENOENT", key |-> a]
      ELSE IF kind = "file" THEN [err |-> "ENOTDIR", key |-> a]
      ELSE Walk(Step(a, Head(comps)), Tail(comps), f)

\* The entries of directory a that a listing shows, as keys of fs.
LiveChildren(a, f) ==
  {k \in DOMAIN f : LET j == FullKey(k, WorkDirKey(f)) IN Up(j) = a /\ ~IsDeleted(j)}

\* os.listdir of the working directory.
Names(f) == {NameOf(FullKey(k, WorkDirKey(f))) : k \in LiveChildren(WorkDirKey(f), f)}

\* ------------------------------------------------------------------ paths

\* The relative path `name`, the absolute path /d/name and the absolute path
\* /name.
RelPath(name) == [abs |-> FALSE, dir |-> <<>>, name |-> name]
AbsPath(name) == [abs |-> TRUE,  dir |-> <<DIR>>, name |-> name]
UpPath(name)  == [abs |-> TRUE,  dir |-> <<>>, name |-> name]
NoPath        == [abs |-> FALSE, dir |-> <<>>, name |-> <<>>]

\* Path('') and Path('.'): the working directory itself.
CwdPath       == [abs |-> FALSE, dir |-> <<>>, name |-> <<>>]

\* Path('/')
RootPath      == [abs |-> TRUE, dir |-> <<>>, name |-> <<>>]

\* The components of str(p): Path('') is '.'.
Components(p) ==
  IF ~p.abs /\ p.dir = <<>> /\ p.name = <<>> THEN << <<".">> >>
  ELSE SelectSeq(p.dir, NonEmpty) \o Split(p.name)

\* Where the walk of a path starts.
Start(p, f) == IF p.abs THEN RootKey ELSE WorkDirKey(f)

\* Where a path leads: [err, key].
Where(p, f) == Walk(Start(p, f), Components(p), f)

\* What a walk found, NoEntry when it failed or ended at nothing.
Found(w, f) == IF w.err # "" THEN NoEntry ELSE EntryOf(w.key, f)

\* What a path leads to, NoEntry when to nothing.
EntryAt(p, f) == Found(Where(p, f), f)

\* Path.exists()
Exists(p, f) == EntryAt(p, f).kind # "none"

\* Path.is_file()
IsFile(p, f) == EntryAt(p, f).kind = "file"

\* os.path.normpath of the components after the root: "." is dropped, ".."
\* takes the component before it away and stays at the root.
RECURSIVE Normal(_, _)
Normal(done, comps) ==
  IF comps = <<>> THEN done
  ELSE IF Head(comps) = <<".">> THEN Normal(done, Tail(comps))
  ELSE IF Head(comps) = <<".", ".">> THEN Normal(Front(done), Tail(comps))
  ELSE Normal(Append(done, Head(comps)), Tail(comps))

\* The absolute path of the components after the root.
PathFrom(comps) ==
  IF comps = <<>> THEN RootPath
  ELSE [abs |-> TRUE, dir |-> Front(comps), name |-> Last(comps)]

\* Path.resolve(): [raised, path].  The path is made absolute from
\* os.getcwd() and normalized, whether it exists or not; raised: the
\* FileNotFoundError of os.getcwd() for a relative path when the working
\* directory has been replaced.
Resolve(p, f) ==
  IF p.abs THEN [raised |-> FALSE, path |-> PathFrom(Normal(<<>>, Components(p)))]
  ELSE IF IsDeleted(WorkDirKey(f)) THEN [raised |-> TRUE, path |-> NoPath]
  ELSE [raised |-> FALSE,
        path |-> PathFrom(Normal(<<>>, Split(Tail(WorkDirKey(f))) \o Components(p)))]

\* str.rfind('.') as a 1-based position, 0 when there is no dot.
RFindDot(name) ==
  LET dots == {i \in 1..Len(name) : name[i] = "."}
  IN  IF dots = {} THEN 0 ELSE CHOOSE i \in dots : \A j \in dots : j <= i

\* PurePath.suffix: from the last dot, unless that dot is the first or the last
\* character of the name.
Suffix(name) ==
  LET i == RFindDot(name)
  IN  IF 1 < i /\ i < Len(name) THEN SubSeq(name, i, Len(name)) ELSE <<>>

\* PurePath.stem
Stem(name) ==
  LET i == RFindDot(name)
  IN  IF 1 < i /\ i < Len(name) THEN SubSeq(name, 1, i - 1) ELSE name

\* PurePath.with_suffix(suffix): ValueError for a suffix holding a separator,
\* not starting with a dot, or equal to ".", and for a path without a name;
\* else the last suffix is replaced (or the suffix appended to a name that has
\* none).
WithSuffix(p, suffix) ==
  IF \/ Contains(suffix, "/")
     \/ (suffix # <<>> /\ Head(suffix) # ".")
     \/ suffix = <<".">>
     \/ p.name = <<>>
  THEN [raised |-> TRUE, path |-> NoPath]
  ELSE LET old == Suffix(p.name)
           base == IF old = <<>> THEN p.name
                   ELSE SubSeq(p.name, 1, Len(p.name) - Len(old))
       IN  [raised |-> FALSE, path |-> [abs |-> p.abs, dir |-> p.dir, name |-> base \o suffix]]

\* PurePath.with_name(name): same directory, another final component, kept
\* as it is written; ValueError for a path without a name and for a name that
\* is empty, starts or ends with a separator, or does not parse to exactly one
\* component ('' and '.' between separators do not count).
WithName(p, name) ==
  IF \/ p.name = <<>>
     \/ name = <<>>
     \/ Last(name) = "/"
     \/ Head(name) = "/"
     \/ Len(SelectSeq(Split(name), NotDot)) # 1
  THEN [raised |-> TRUE, path |-> NoPath]
  ELSE [raised |-> FALSE, path |-> [abs |-> p.abs, dir |-> p.dir, name |-> name]]

DigitChar == <<"0", "1", "2", "3", "4", "5", "6", "7", "8", "9">>

\* The decimal text of a natural number, as the f-string formats {i}.
RECURSIVE IntToStr(_)
IntToStr(n) ==
  IF n < 10 THEN <<DigitChar[n + 1]>>
  ELSE IntToStr(n \div 10) \o <<DigitChar[(n % 10) + 1]>>

\* ------------------------------------------------------- ensure_dot_prefix

RECURSIVE LStrip(_)
LStrip(s) == IF s # <<>> /\ Head(s) \in Whitespace THEN LStrip(Tail(s)) ELSE s

RECURSIVE RStrip(_)
RStrip(s) ==
  IF s # <<>> /\ s[Len(s)] \in Whitespace THEN RStrip(SubSeq(s, 1, Len(s) - 1)) ELSE s

\* str.strip()
Strip(s) == RStrip(LStrip(s))

\* ensure_dot_prefix(ext): ValueError when empty after trimming, else the
\* trimmed extension with a leading dot.
ensure_dot_prefix(ext) ==
  LET e == Strip(ext)
  IN  IF e = <<>> THEN [raised |-> TRUE, ext |-> <<>>]
      ELSE IF Head(e) # "." THEN [raised |-> FALSE, ext |-> <<".">> \o e]
      ELSE [raised |-> FALSE, ext |-> e]

\* ----------------------------------------------------- next_available_path

\* target.with_name(f"{target.stem}-{i}{target.suffix}"): [raised, path]
Candidate(target, i) ==
  WithName(target, Stem(target.name) \o <<"-">> \o IntToStr(i) \o Suffix(target.name))

\* Variant of ProbeFrom that returns the candidate without looking whether it
\* exists.
ProbeFrom_Unchecked(target, i, f) == Candidate(target, i)

\* The while loop of next_available_path, entered with counter i.
RECURSIVE ProbeFrom(_, _, _)
ProbeFrom(target, i, f) ==
  LET candidate == Candidate(target, i)
  IN  IF candidate.raised THEN candidate
      ELSE IF ~Exists(candidate.path, f) THEN candidate
      ELSE ProbeFrom(target, i + 1, f)

\* Variant of next_available_path that never probes.
next_available_path_NoProbe(target, f) == [raised |-> FALSE, path |-> target]

\* next_available_path(target): [raised, path].  raised: the ValueError of
\* with_name for an existing target without a final component.
next_available_path(target, f) ==
  IF ~Exists(target, f) THEN [raised |-> FALSE, path |-> target]
  ELSE ProbeFrom(target, 1, f)

\* -------------------------------------------------------------- os.replace

\* os.replace's outcome for the errno e: the OSError, or the filesystem g.
ReplaceOutcome(e, f, g) ==
  IF e # "" THEN [ok |-> FALSE, errno |-> e, fs |-> f]
  ELSE [ok |-> TRUE, errno |-> "", fs |-> g]

\* The walk to the directory that holds a path's final component: [err, key].
Holder(p, f) == Walk(Start(p, f), Front(Components(p)), f)

\* The error of that walk, "" when it ended at a directory.
HolderError(h, f) ==
  LET kind == KindAt(h.key, f)
  IN  IF h.err # "" THEN h.err
      ELSE IF kind = "none" THEN "ENOENT"
      ELSE IF kind = "file" THEN "ENOTDIR"
      ELSE ""

\* The final component of str(p), none for the root.
FinalName(p) ==
  LET comps == Components(p)
  IN  IF comps = <<>> THEN <<>> ELSE Last(comps)

\* Whether a final component is ".", ".." or the root: rename refuses it.
Busy(n) == n \in {<<>>, <<".">>, <<".", ".">>}

\* The errno of a rename from key s, holding se, to key d, holding de, after
\* the walks to the two holders succeeded and both final components are
\* names: a missing source; a destination in a replaced directory; a
\* directory moved below itself (EINVAL) or onto something that holds it
\* (ENOTEMPTY); then, unless the two are the same entry, a directory onto a
\* file, a file onto a directory, a directory onto one that is not empty.
RenameErrorAt(s, d, se, de, f) ==
  IF se.kind = "none" THEN "ENOENT"
  ELSE IF IsDeleted(Up(d)) THEN "ENOENT"
  ELSE IF Above(s, d) THEN "EINVAL"
  ELSE IF Above(d, s) THEN "ENOTEMPTY"
  ELSE IF s = d THEN ""
  ELSE IF se.kind = "dir" /\ de.kind = "file" THEN "ENOTDIR"
  ELSE IF se.kind = "file" /\ de.kind = "dir" THEN "EISDIR"
  ELSE IF de.kind = "dir" /\ LiveChildren(d, f) # {} THEN "ENOTEMPTY"
  ELSE ""

\* The first of the errors of the two walks, of the final components and of
\* the rename, "" when none.
FirstError(srcWalk, dstWalk, busy, rename) ==
  IF srcWalk # "" THEN srcWalk
  ELSE IF dstWalk # "" THEN dstWalk
  ELSE IF busy THEN "EBUSY"
  ELSE rename

\* The errno of a rename of name ns in the holder hs to name nd in the
\* holder hd, "" when it succeeds.
RenameErrorIn(hs, ns, hd, nd, f) ==
  FirstError(HolderError(hs, f), HolderError(hd, f), Busy(ns) \/ Busy(nd),
             RenameErrorAt(Child(hs.key, ns), Child(hd.key, nd),
                           EntryOf(Child(hs.key, ns), f), EntryOf(Child(hd.key, nd), f), f))

\* The errno rename(2) fails with, "" when it succeeds.
RenameError(src, dst, f) ==
  RenameErrorIn(Holder(src, f), FinalName(src), Holder(dst, f), FinalName(dst), f)

\* Whether two paths lead to the same existing entry.
SamePlace(src, dst, f) ==
  Exists(src, f) /\ Exists(dst, f) /\ Where(src, f).key = Where(dst, f).key

\* Where the entry at j is after the rename of s to d, all spelled from the
\* root: what is at or below s goes to d; what d held before, if it stays,
\* carries the mark.
NewFullKey(j, s, d) ==
  IF Under(s, j) THEN d \o SubSeq(j, Len(s) + 1, Len(j))
  ELSE IF Under(d, j) THEN d \o <<Deleted>> \o SubSeq(j, Len(d) + 1, Len(j))
  ELSE j

\* The keys of f whose entries are still there after a rename onto d: what d
\* held is gone, unless the process is in it.
Survivors(d, w, f) == {k \in DOMAIN f : Under(d, FullKey(k, w)) => Under(d, w)}

\* The key of fs that the entry under key k has after the rename, the
\* working directory being at w before it and at nw after it.
NewKey(k, s, d, w, nw) == Restored(NewFullKey(FullKey(k, w), s, d), nw)

\* The filesystem after a rename from key s to key d that succeeds: every
\* entry that is still there, under its key after the rename.
RenamedAt(s, d, f) ==
  LET w     == WorkDirKey(f)
      nw    == NewFullKey(w, s, d)
      pairs == {<<NewKey(k, s, d, w, nw), k>> : k \in Survivors(d, w, f)}
  IN  IF s = d THEN f
      ELSE [n \in {p[1] : p \in pairs} |-> f[(CHOOSE p \in pairs : p[1] = n)[2]]]

\* The filesystem after os.replace(src, dst) succeeded.
Renamed(src, dst, f) ==
  RenamedAt(Child(Holder(src, f).key, FinalName(src)),
            Child(Holder(dst, f).key, FinalName(dst)), f)

\* Variant of os_replace with the semantics of a rename that refuses an
\* existing destination.
os_replace_NoOverwrite(src, dst, f) ==
  ReplaceOutcome(
    IF Exists(src, f) /\ Exists(dst, f) /\ ~SamePlace(src, dst, f)
    THEN "EEXIST" ELSE RenameError(src, dst, f),
    f, Renamed(src, dst, f))

\* os.replace(src, dst) on a POSIX filesystem: an OSError with the errno of
\* the rename, or the renamed filesystem.
os_replace(src, dst, f) ==
  LET hs == Holder(src, f)
      hd == Holder(dst, f)
      ns == FinalName(src)
      nd == FinalName(dst)
  IN  ReplaceOutcome(RenameErrorIn(hs, ns, hd, nd, f), f,
                     RenamedAt(Child(hs.key, ns), Child(hd.key, nd), f))

\* ------------------------------------------------------------ safe_replace

\* safe_replace(src, dst, overwrite): [raised, errno, path, fs].  raised is
\* "" when the call returns `path`, else the exception that leaves it: the
\* ValueError of next_available_path or the OSError of os.replace.
safe_replace(src, dst, overwrite, f) ==
  LET d == IF overwrite THEN [raised |-> FALSE, path |-> dst]
           ELSE next_available_path(dst, f)
  IN  IF d.raised
      THEN [raised |-> "ValueError", errno |-> "", path |-> NoPath, fs |-> f]
      ELSE LET r == os_replace(src, d.path, f)
           IN  IF r.ok
               THEN [raised |-> "", errno |-> "", path |-> d.path, fs |-> r.fs]
               ELSE [raised |-> "OSError", errno |-> r.errno, path |-> NoPath, fs |-> f]

\* ---------------------------------------------------------------- messages

\* One printed line: its fixed wording, the path it is about, the destination
\* name it shows and its parenthesised note.
Msg(text, path, dst, note) == [text |-> text, path |-> path, dst |-> dst, note |-> note]

NoInputsMsg  == Msg("No inputs provided. Specify files or use --pattern.", NoPath, <<>>, "")
NoMatchMsg   == Msg("No files matched the provided paths/patterns.", NoPath, <<>>, "")
HelpMsg      == Msg("show this help message and exit", NoPath, <<>>, "")
NoMsg        == Msg("", NoPath, <<>>, "")

\* -------------------------------------------------------- change_extension

\* is_zip_file(path): zipfile.is_zipfile, any exception mapped to False.
is_zip_file(p, f) == IsFile(p, f) /\ EntryAt(p, f).zip

\* Variant of FinalDst that always takes the naive destination.
FinalDst_Naive(dst, overwrite, f) == [raised |-> FALSE, path |-> dst]

\* Line 89: the destination the rename will use, [raised, path].
FinalDst(dst, overwrite, f) ==
  IF overwrite THEN [raised |-> FALSE, path |-> dst] ELSE next_available_path(dst, f)

\* Variant of OsFailure in which the OSError is not caught.
OsFailure_Uncaught(file_path, errno, f) ==
  [raised |-> TRUE, ok |-> FALSE, fs |-> f, msg |-> NoMsg]

\* Lines 98-99: an OSError of the rename is caught and returned.
OsFailure(file_path, errno, f) ==
  [raised |-> FALSE, ok |-> FALSE, fs |-> f,
   msg |-> Msg("Error renaming", file_path, <<>>, errno)]

\* Lines 87-99: the rename itself, once the checks have passed.  A ValueError
\* of line 89 is not an OSError and escapes.
PerformRename(file_path, dst, overwrite, f) ==
  LET final     == FinalDst(dst, overwrite, f)
      final_dst == final.path
  IN  IF final.raised
      THEN [raised |-> TRUE, ok |-> FALSE, fs |-> f, msg |-> NoMsg]
      ELSE IF overwrite /\ Exists(dst, f)
      THEN LET r == os_replace(file_path, dst, f)
           IN  IF r.ok
               THEN [raised |-> FALSE, ok |-> TRUE, fs |-> r.fs,
                     msg |-> Msg("Renamed (overwrote)", file_path, dst.name, "")]
               ELSE OsFailure(file_path, r.errno, f)
      ELSE LET r == os_replace(file_path, final_dst, f)
           IN  IF r.ok
               THEN [raised |-> FALSE, ok |-> TRUE, fs |-> r.fs,
                     msg |-> Msg("Renamed", file_path, final_dst.name,
                                 IF final_dst = dst THEN ""
                                 ELSE "renamed to avoid conflict")]
               ELSE OsFailure(file_path, r.errno, f)

\* Variant of FailsVerification that ignores verify_zip.
FailsVerification_Always(file_path, verify_zip, f) == ~is_zip_file(file_path, f)

\* Line 77: the verification gate.
FailsVerification(file_path, verify_zip, f) == verify_zip /\ ~is_zip_file(file_path, f)

\* Variant of DryRunPreview that goes on to the rename.
DryRunPreview_Renames(file_path, dst, overwrite, f) ==
  PerformRename(file_path, dst, overwrite, f)

\* Lines 83-85: the dry-run preview.
DryRunPreview(file_path, dst, overwrite, f) ==
  [raised |-> FALSE, ok |-> TRUE, fs |-> f,
   msg |-> Msg("Would rename", file_path, dst.name,
               IF overwrite /\ Exists(dst, f) THEN "will overwrite" ELSE "")]

\* change_extension(file_path, new_extension, verify_zip, overwrite, dry_run)
\* on filesystem f: [raised, ok, msg, fs].  raised: a ValueError escaped.
change_extension(file_path, new_extension, verify_zip, overwrite, dry_run, f) ==
  IF ~IsFile(file_path, f)
  THEN [raised |-> FALSE, ok |-> FALSE, fs |-> f,
        msg |-> Msg("Skip: not a file", file_path, <<>>, "")]
  ELSE LET e == ensure_dot_prefix(new_extension)
       IN  IF e.raised
           THEN [raised |-> TRUE, ok |-> FALSE, fs |-> f, msg |-> NoMsg]
           ELSE IF FailsVerification(file_path, verify_zip, f)
           THEN [raised |-> FALSE, ok |-> FALSE, fs |-> f,
                 msg |-> Msg("Skip: not a valid ZIP", file_path, <<>>, "")]
           ELSE LET d == WithSuffix(file_path, e.ext)
                IN  IF d.raised
                    THEN [raised |-> TRUE, ok |-> FALSE, fs |-> f, msg |-> NoMsg]
                    ELSE IF dry_run
                    THEN DryRunPreview(file_path, d.path, overwrite, f)
                    ELSE PerformRename(file_path, d.path, overwrite, f)

\* ------------------------------------------------------------ expand_inputs

\* An input token is the string the user typed.  The tokens of the initial
\* states: a name or name pattern, spelled relative or after "/d/".
RelToken(s) == s
AbsToken(s) == <<"/">> \o DIR \o <<"/">> \o s

\* glob.has_magic
HasMagic(s) == \E i \in 1..Len(s) : s[i] \in {"*", "?", "["}

\* fnmatch.translate at a "[": the position of the "]" that closes the class
\* whose first character is at position i of pat, 0 when nothing closes it.  A
\* leading "!" and a "]" right after the bracket (or after the "!") belong to
\* the class.
ClassEnd(pat, i) ==
  LET j1 == IF i <= Len(pat) /\ pat[i] = "!" THEN i + 1 ELSE i
      j2 == IF j1 <= Len(pat) /\ pat[j1] = "]" THEN j1 + 1 ELSE j1
      closers == {j \in j2..Len(pat) : pat[j] = "]"}
  IN  IF closers = {} THEN 0 ELSE SetMin(closers)

\* The class text cut at its range hyphens: chunk from position i, the next
\* hyphen looked for from position k; a hyphen right after a range's end is
\* not a range hyphen.  The last chunk may be empty.
RECURSIVE ClassChunks(_, _, _)
ClassChunks(stuff, i, k) ==
  LET hyphens == {h \in k..Len(stuff) : stuff[h] = "-"}
  IN  IF hyphens = {} THEN <<SubSeq(stuff, i, Len(stuff))>>
      ELSE LET h == SetMin(hyphens)
           IN  <<SubSeq(stuff, i, h - 1)>> \o ClassChunks(stuff, h + 1, h + 3)

\* A trailing hyphen is a literal of the chunk before it.
TrailingHyphen(chunks) ==
  LET n == Len(chunks)
  IN  IF n > 1 /\ chunks[n] = <<>>
      THEN [i \in 1..(n - 1) |-> IF i = n - 1 THEN chunks[i] \o <<"-">> ELSE chunks[i]]
      ELSE chunks

\* Empty ranges (end before start) are removed, from the last to the first:
\* the two chunks around one are joined without its two ends.
RECURSIVE DropEmptyRanges(_, _)
DropEmptyRanges(chunks, k) ==
  IF k < 2 THEN chunks
  ELSE LET l == chunks[k - 1]
           r == chunks[k]
           joined == [i \in 1..(Len(chunks) - 1) |->
                        IF i < k - 1 THEN chunks[i]
                        ELSE IF i = k - 1 THEN SubSeq(l, 1, Len(l) - 1) \o Tail(r)
                        ELSE chunks[i + 1]]
       IN  IF Ord(l[Len(l)]) > Ord(r[1]) THEN DropEmptyRanges(joined, k - 1)
           ELSE DropEmptyRanges(chunks, k - 1)

\* Whether character c is in the class written between "[" and "]": every
\* character of a chunk is a literal, the last character of a chunk and the
\* first of the next are the ends of a range, a leading "!" negates.
InClass(stuff, c) ==
  LET negated == stuff # <<>> /\ Head(stuff) = "!"
      cut     == IF Contains(stuff, "-")
                 THEN ClassChunks(stuff, 1, IF negated THEN 3 ELSE 2)
                 ELSE <<stuff>>
      fixed   == TrailingHyphen(cut)
      kept    == DropEmptyRanges(fixed, Len(fixed))
      chunks  == IF negated THEN [kept EXCEPT ![1] = Tail(@)] ELSE kept
      member  == \/ \E i \in 1..Len(chunks) : Contains(chunks[i], c)
                 \/ \E i \in 1..(Len(chunks) - 1) :
                      /\ Ord(chunks[i][Len(chunks[i])]) <= Ord(c)
                      /\ Ord(c) <= Ord(chunks[i + 1][1])
  IN  IF negated THEN ~member ELSE member

\* fnmatch of a name against a pattern: "*" any run of characters, "?" any
\* one character, "[seq]" / "[!seq]" one character in / not in the class, a
\* "[" that nothing closes and every other character itself.
RECURSIVE FnMatch(_, _)
FnMatch(pat, s) ==
  IF pat = <<>> THEN s = <<>>
  ELSE IF Head(pat) = "*"
       THEN FnMatch(Tail(pat), s) \/ (s # <<>> /\ FnMatch(pat, Tail(s)))
  ELSE IF Head(pat) = "?"
       THEN s # <<>> /\ FnMatch(Tail(pat), Tail(s))
  ELSE IF Head(pat) = "[" /\ ClassEnd(pat, 2) # 0
       THEN LET j == ClassEnd(pat, 2)
            IN  /\ s # <<>>
                /\ InClass(SubSeq(pat, 2, j - 1), Head(s))
                /\ FnMatch(SubSeq(pat, j + 1, Len(pat)), Tail(s))
  ELSE /\ s # <<>>
       /\ Head(pat) = Head(s)
       /\ FnMatch(Tail(pat), Tail(s))

\* A pattern not starting with a dot does not match hidden names.
GlobMatches(pat, name) ==
  /\ FnMatch(pat, name)
  /\ (name # <<>> /\ Head(name) = ".") => (pat # <<>> /\ Head(pat) = ".")

\* Path(string): the empty components and the "." components are dropped,
\* ".." stays; exactly two leading slashes are kept.
PathOf(item) ==
  LET parts == SelectSeq(Split(item), NotDot)
  IN  [abs  |-> item # <<>> /\ Head(item) = "/",
       dir  |-> (IF Len(item) >= 2 /\ item[1] = "/" /\ item[2] = "/"
                    /\ (Len(item) = 2 \/ item[3] # "/")
                 THEN << <<>> >> ELSE <<>>)
                \o Front(parts),
       name |-> IF parts = <<>> THEN <<>> ELSE Last(parts)]

\* Where a string that is not empty leads: [err, key].  A trailing slash
\* demands a directory.
StrWhere(s, f) ==
  LET comps == Split(s)
  IN  Walk(IF Head(s) = "/" THEN RootKey ELSE WorkDirKey(f),
           comps \o (IF Last(s) = "/" /\ comps # <<>> THEN << <<".">> >> ELSE <<>>), f)

\* os.path.lexists and os.path.isdir of a string.
LExists(s, f) == s # <<>> /\ Found(StrWhere(s, f), f).kind # "none"

IsDir(s, f) == s # <<>> /\ Found(StrWhere(s, f), f).kind = "dir"

\* os.path.split: [head, tail], cut after the last slash; the slashes that
\* end the head are taken off unless it is slashes only.
OsSplit(p) ==
  LET cut == RFindSlash(p)
  IN  [head |-> IF \A i \in 1..cut : p[i] = "/" THEN SubSeq(p, 1, cut)
                ELSE SubSeq(p, 1, CHOOSE i \in 1..cut :
                                    /\ p[i] # "/"
                                    /\ \A j \in (i + 1)..cut : p[j] = "/"),
       tail |-> SubSeq(p, cut + 1, Len(p))]

\* os.path.join of two strings.
OsJoin(a, b) ==
  IF b # <<>> /\ Head(b) = "/" THEN b
  ELSE IF a = <<>> \/ Last(a) = "/" THEN a \o b
  ELSE a \o <<"/">> \o b

\* glob._join
GlobJoin(a, b) == IF a = <<>> THEN b ELSE IF b = <<>> THEN a ELSE OsJoin(a, b)

\* A sequence without the later occurrences of its elements.
RECURSIVE Uniq(_, _)
Uniq(s, seen) ==
  IF s = <<>> THEN <<>>
  ELSE IF Head(s) \in seen THEN Uniq(Tail(s), seen)
  ELSE <<Head(s)>> \o Uniq(Tail(s), seen \cup {Head(s)})

\* Whether string a is before string b, or equal to it, by code points.
RECURSIVE LexLeq(_, _)
LexLeq(a, b) ==
  IF a = <<>> THEN TRUE
  ELSE IF b = <<>> THEN FALSE
  ELSE IF Head(a) = Head(b) THEN LexLeq(Tail(a), Tail(b))
  ELSE Ord(Head(a)) < Ord(Head(b))

\* The strings of a set by code points.
RECURSIVE Sorted(_)
RECURSIVE SortedAfter(_, _)
SortedAfter(first, S) == <<first>> \o Sorted(S \ {first})

Sorted(S) ==
  IF S = {} THEN <<>>
  ELSE SortedAfter(CHOOSE x \in S : \A y \in S : LexLeq(x, y), S)

\* The names of a directory in the order it lists them: `listing` tells the
\* order of the names it holds, whatever directory they are in; the names it
\* leaves out follow by code points.
Ordered(names, listing) ==
  LET Listed(n) == n \in names
  IN  Uniq(SelectSeq(listing, Listed), {}) \o Sorted(names \ {listing[i] : i \in 1..Len(listing)})

\* The names found where a walk ended, all of them or the directories only;
\* none when that is not a directory.
ListIn(w, dironly, f, listing) ==
  IF Found(w, f).kind # "dir" THEN <<>>
  ELSE Ordered({NameOf(FullKey(k, WorkDirKey(f))) :
                  k \in {j \in LiveChildren(w.key, f) : dironly => f[j].kind = "dir"}},
               listing)

\* glob._listdir: os.scandir of dirname, of "." when it is empty; nothing on
\* an OSError.
ListDir(dirname, dironly, f, listing) ==
  ListIn(IF dirname = <<>> THEN [err |-> "", key |-> WorkDirKey(f)] ELSE StrWhere(dirname, f),
         dironly, f, listing)

NotHidden(n) == n = <<>> \/ Head(n) # "."

\* glob._glob1: the listed names the pattern matches.
Glob1(dirname, pattern, dironly, f, listing) ==
  LET Hit(n) == GlobMatches(pattern, n)
  IN  SelectSeq(ListDir(dirname, dironly, f, listing), Hit)

\* glob._glob0: the name itself if it is there; for no name, the empty
\* string if dirname is a directory.
Glob0(dirname, basename, f) ==
  IF basename # <<>>
  THEN (IF LExists(GlobJoin(dirname, basename), f) THEN <<basename>> ELSE <<>>)
  ELSE (IF IsDir(dirname, f) THEN <<basename>> ELSE <<>>)

\* x joined before each string of ys.
JoinEach(x, ys) == [j \in 1..Len(ys) |-> GlobJoin(x, ys[j])]

\* glob._rlistdir: every name that is not hidden, each followed by what is
\* below it.
RECURSIVE RListDir(_, _, _, _)
RECURSIVE RListNames(_, _, _, _, _)
RListNames(names, dirname, dironly, f, listing) ==
  Concat([i \in 1..Len(names) |->
            <<names[i]>> \o JoinEach(names[i],
                                     RListDir(GlobJoin(dirname, names[i]), dironly, f, listing))])

RListDir(dirname, dironly, f, listing) ==
  RListNames(SelectSeq(ListDir(dirname, dironly, f, listing), NotHidden),
             dirname, dironly, f, listing)

\* glob._glob2: the empty string, then everything below dirname.
Glob2(dirname, dironly, f, listing) == << <<>> >> \o RListDir(dirname, dironly, f, listing)

\* The glob_in_dir of _iglob for the last component of a pattern.
GlobInDir(dirname, basename, dironly, f, listing) ==
  IF ~HasMagic(basename) THEN Glob0(dirname, basename, f)
  ELSE IF basename = <<"*", "*">> THEN Glob2(dirname, dironly, f, listing)
  ELSE Glob1(dirname, basename, dironly, f, listing)

\* os.path.join(d, name) for each name.
JoinEachOs(d, names) == [j \in 1..Len(names) |-> OsJoin(d, names[j])]

\* glob._iglob with recursive=True: the strings a pattern yields.
RECURSIVE IGlob(_, _, _, _)
IGlobDirs(dirs, basename, dironly, f, listing) ==
  Concat([i \in 1..Len(dirs) |->
            JoinEachOs(dirs[i], GlobInDir(dirs[i], basename, dironly, f, listing))])

IGlobSplit(pathname, dirname, basename, dironly, f, listing) ==
  IF ~HasMagic(pathname)
  THEN IF basename # <<>>
       THEN (IF LExists(pathname, f) THEN <<pathname>> ELSE <<>>)
       ELSE (IF IsDir(dirname, f) THEN <<pathname>> ELSE <<>>)
  ELSE IF dirname = <<>> THEN GlobInDir(<<>>, basename, dironly, f, listing)
  ELSE IGlobDirs(IF dirname # pathname /\ HasMagic(dirname)
                 THEN IGlob(dirname, TRUE, f, listing) ELSE <<dirname>>,
                 basename, dironly, f, listing)

IGlob(pathname, dironly, f, listing) ==
  LET parts == OsSplit(pathname)
  IN  IGlobSplit(pathname, parts.head, parts.tail, dironly, f, listing)

\* glob.iglob: an empty first string is left out for the empty pattern and
\* for a pattern that starts with "**".
SkipEmpty(pathname, it) ==
  IF /\ pathname = <<>> \/ (Len(pathname) >= 2 /\ SubSeq(pathname, 1, 2) = <<"*", "*">>)
     /\ it # <<>>
     /\ Head(it) = <<>>
  THEN Tail(it) ELSE it

\* glob.glob(item, recursive=True)
GlobStrings(item, f, listing) == SkipEmpty(item, IGlob(item, FALSE, f, listing))

\* The Paths of the strings.
Paths(strings) == [i \in 1..Len(strings) |-> PathOf(strings[i])]

\* Line 111: [Path(p) for p in glob.glob(item, recursive=True)]
Glob(item, f, listing) == Paths(GlobStrings(item, f, listing))

\* The matches, the token itself when there are none.
OrItself(matches, item) == IF matches = <<>> THEN <<PathOf(item)>> ELSE matches

\* Lines 111-115: the matches of one token, the token itself when none.
MatchesOf(item, f, listing) == OrItself(Glob(item, f, listing), item)

\* Line 119: p.resolve() if p.exists() else p, [raised, path].
Normalized(p, f) == IF Exists(p, f) THEN Resolve(p, f) ELSE [raised |-> FALSE, path |-> p]

\* Variant of AddMatches that appends without consulting `seen`.
RECURSIVE AddMatches_NoSeen(_, _, _)
AddMatches_NoSeen(matches, acc, f) ==
  IF matches = <<>> \/ acc.raised THEN acc
  ELSE LET p == Normalized(Head(matches), f)
       IN  IF p.raised THEN [acc EXCEPT !.raised = TRUE]
           ELSE AddMatches_NoSeen(Tail(matches),
                                  [seen |-> acc.seen \cup {p.path},
                                   results |-> Append(acc.results, p.path),
                                   raised |-> FALSE], f)

\* Lines 117-122 over the matches of one token; acc is [seen, results,
\* raised], raised when resolve raised.
RECURSIVE AddMatches(_, _, _)
AddMatches(matches, acc, f) ==
  IF matches = <<>> \/ acc.raised THEN acc
  ELSE LET p == Normalized(Head(matches), f)
       IN  IF p.raised THEN [acc EXCEPT !.raised = TRUE]
           ELSE IF p.path \notin acc.seen
           THEN AddMatches(Tail(matches),
                           [seen |-> acc.seen \cup {p.path},
                            results |-> Append(acc.results, p.path),
                            raised |-> FALSE], f)
           ELSE AddMatches(Tail(matches), acc, f)

\* Lines 109-122: the loop over the tokens.
RECURSIVE ExpandLoop(_, _, _, _)
ExpandLoop(items, acc, f, listing) ==
  IF items = <<>> \/ acc.raised THEN acc
  ELSE ExpandLoop(Tail(items), AddMatches(MatchesOf(Head(items), f, listing), acc, f),
                  f, listing)

\* expand_inputs(paths_or_patterns): [raised, results].  raised: the
\* FileNotFoundError of line 119 left the call.
expand_inputs(paths_or_patterns, f, listing) ==
  LET acc == ExpandLoop(paths_or_patterns,
                        [seen |-> {}, results |-> <<>>, raised |-> FALSE], f, listing)
  IN  [raised |-> acc.raised, results |-> acc.results]

\* The orders in which directories may list names.
RECURSIVE Orderings(_)
Orderings(S) ==
  IF S = {} THEN {<<>>}
  ELSE UNION {{<<x>> \o l : l \in Orderings(S \ {x})} : x \in S}

\* The components of the tokens that are patterns.
MagicComponents(items) ==
  {c \in UNION {{Split(items[i])[j] : j \in 1..Len(Split(items[i]))} : i \in 1..Len(items)} :
     HasMagic(c)}

\* The orders in which the directories may list the names of the tree that
\* some pattern component of `items` selects; the place of the other names in
\* a listing has no effect on any glob result.
Listings(f, items) ==
  LET names    == {NameOf(FullKey(k, WorkDirKey(f))) : k \in DOMAIN f}
      patterns == MagicComponents(items)
  IN  Orderings({n \in names : \E c \in patterns : GlobMatches(c, n)})

\* ------------------------------------------------------------ initial data

Restrict(c) == [n \in {m \in DOMAIN c : c[m].kind # "none"} |-> c[n]]

\* The tree whose working directory /d holds the entries of f and whose root
\* holds the working directory beside `siblings`.
Tree(f, siblings) ==
  [k \in DOMAIN f \cup {ParentKey(n) : n \in DOMAIN siblings \cup {DIR}} |->
     IF k = ParentKey(DIR) THEN WorkDir
     ELSE IF k \in DOMAIN f THEN f[k]
     ELSE siblings[Tail(k)]]

NoSiblings == Restrict([n \in {DIR} |-> NoEntry])

\* What each name of the working directory may be before the run.
EntryChoices(n) ==
  IF n = A_ZIP THEN {NoEntry, ZipFile(1)}
  ELSE IF n = A_TXT THEN {NoEntry, PlainFile(2)}
  ELSE IF n = A_BEN THEN {NoEntry, ZipFile(3), Directory}
  ELSE {NoEntry, ZipFile(4)}

UniverseNames == {A_ZIP, A_TXT, A_BEN, A_1_BEN}

InitialFilesystems ==
  {Tree(Restrict(c), NoSiblings) : c \in {d \in [UniverseNames -> {NoEntry, ZipFile(1), PlainFile(2),
                                                   ZipFile(3), ZipFile(4), Directory}] :
                          \A n \in UniverseNames : d[n] \in EntryChoices(n)}}

PositionalTokens ==
  {AbsToken(A_ZIP), RelToken(A_TXT), RelToken(A_BEN), RelToken(STAR_ZIP), RelToken(<<>>)}

PatternTokens == {RelToken(CLASS_BEN)}

Extensions == {EXT_BEN, EXT_PADDED, EXT_BLANK, EXT_DOT}

SeqsUpTo(S, n) == UNION {[1..k -> S] : k \in 0..n}

\* How argparse ends a command line it does not hand to main: an unknown
\* option or a positional that follows an option after the first positionals
\* ("unrecognized arguments"), --to or --pattern without its value, -h/--help.
Faults == {"unrecognized", "missing_value", "help"}

\* The command lines: those argparse parses to a namespace, and faulty ones.
ArgSpace ==
  {a \in [paths : SeqsUpTo(PositionalTokens, MaxInputs),
          pattern : SeqsUpTo(PatternTokens, MaxInputs),
          to : Extensions, force : BOOLEAN, no_verify : BOOLEAN, dry_run : BOOLEAN,
          fault : {"none"}] :
     Len(a.paths) + Len(a.pattern) <= MaxInputs}
  \cup [paths : {<<>>, <<AbsToken(A_ZIP)>>}, pattern : {<<>>},
        to : {EXT_BEN}, force : {FALSE}, no_verify : {FALSE}, dry_run : BOOLEAN,
        fault : Faults]

\* parse_args(argv): the namespace is handed to main, or argparse ends the
\* process: usage error on stderr and status 2, or the help text on stdout
\* and status 0.
parse_args(a) ==
  IF a.fault = "help" THEN [exits |-> TRUE, status |-> 0, stdout |-> <<HelpMsg>>]
  ELSE IF a.fault \in {"unrecognized", "missing_value"}
       THEN [exits |-> TRUE, status |-> 2, stdout |-> <<>>]
  ELSE [exits |-> FALSE, status |-> -1, stdout |-> <<>>]

NoNap == [op |-> "none", src |-> NoPath, target |-> NoPath, overwrite |-> FALSE,
          raised |-> "", errno |-> "", result |-> NoPath]

\* -------------------------------------------------------------------- main

\* Line 167
Inputs == args.paths \o args.pattern

Init ==
  /\ fs \in InitialFilesystems
  /\ fs0 = fs
  /\ fsLog = <<>>
  /\ args \in ArgSpace
  /\ pc = "start"
  /\ files = <<>>
  /\ idx = 1
  /\ out = <<>>
  /\ oks = <<>>
  /\ overall_ok = TRUE
  /\ exit = -1
  /\ passed = <<>>
  /\ nap = NoNap

\* Lines 166-179: parse, the usage error, expansion (its FileNotFoundError
\* ends the process), the resolution miss.
MainStart ==
  /\ pc = "start"
  /\ \E listing \in Listings(fs, Inputs) :
       LET parsed   == parse_args(args)
           expanded == expand_inputs(Inputs, fs, listing)
           resolved == expanded.results
       IN  IF parsed.exits
           THEN /\ out' = out \o parsed.stdout
                /\ exit' = parsed.status
                /\ pc' = "exited"
                /\ files' = files
           ELSE IF Inputs = <<>>
           THEN /\ out' = Append(out, NoInputsMsg)
                /\ exit' = 2
                /\ pc' = "done"
                /\ files' = files
           ELSE IF expanded.raised
           THEN /\ out' = out
                /\ exit' = 1
                /\ pc' = "raised"
                /\ files' = files
           ELSE IF resolved = <<>>
           THEN /\ out' = Append(out, NoMatchMsg)
                /\ exit' = 1
                /\ pc' = "done"
                /\ files' = resolved
           ELSE /\ out' = out
                /\ exit' = exit
                /\ pc' = "loop"
                /\ files' = resolved
  /\ UNCHANGED <<fs, fs0, fsLog, args, idx, oks, overall_ok, passed, nap>>

\* Variant of Fold that keeps only the last outcome.
Fold_LastOnly(overall, ok) == ok

\* Line 189: overall_ok = overall_ok and ok
Fold(overall, ok) == overall /\ ok

\* Line 191: return 0 if overall_ok else 1
ExitStatus(overall) == IF overall THEN 0 ELSE 1

\* The call of lines 181-187 for the file under the loop.
CallOn(f) ==
  change_extension(f, args.to, ~args.no_verify, args.force, args.dry_run, fs)

\* Lines 180-189: one iteration of the loop; a ValueError ends the process.
MainStep ==
  /\ pc = "loop"
  /\ idx <= Len(files)
  /\ LET r == CallOn(files[idx])
     IN  /\ passed' = Append(passed, [path |-> files[idx], entry |-> EntryAt(files[idx], fs)])
         /\ fsLog' = Append(fsLog, fs)
         /\ fs' = r.fs
         /\ IF r.raised
            THEN /\ pc' = "raised"
                 /\ exit' = 1
                 /\ UNCHANGED <<out, oks, overall_ok, idx>>
            ELSE /\ out' = Append(out, r.msg)
                 /\ oks' = Append(oks, r.ok)
                 /\ overall_ok' = Fold(overall_ok, r.ok)
                 /\ idx' = idx + 1
                 /\ UNCHANGED <<pc, exit>>
  /\ UNCHANGED <<fs0, args, files, nap>>

\* Line 191
MainReturn ==
  /\ pc = "loop"
  /\ idx > Len(files)
  /\ exit' = ExitStatus(overall_ok)
  /\ pc' = "done"
  /\ UNCHANGED <<fs, fs0, fsLog, args, files, idx, out, oks, overall_ok, passed, nap>>

Next == MainStart \/ MainStep \/ MainReturn

Spec == Init /\ [][Next]_vars

\* ---------------------- next_available_path and safe_replace called directly

NapNames == {A_BEN, A_BARE} \cup {Candidate(RelPath(A_BEN), i).path.name : i \in 1..MaxSuffix}
                            \cup {Candidate(RelPath(A_BARE), i).path.name : i \in 1..MaxSuffix}

\* The first candidate name of the working directory.
DIR_1 == Candidate(UpPath(DIR), 1).path.name

\* What the root may hold beside the working directory: nothing, or a
\* directory under the first candidate name of the working directory.
NapSiblings ==
  {Restrict([n \in {DIR_1} |-> e]) : e \in {NoEntry, Directory}}

\* The path of the file x in the directory a.
InnerPath == [abs |-> FALSE, dir |-> <<A_BARE>>, name |-> <<"x">>]

\* The entries c with the file a/x added when `inner`.
Holding(c, inner) ==
  [k \in DOMAIN c \cup (IF inner THEN {A_BARE \o <<"/", "x">>} ELSE {}) |->
     IF k \in DOMAIN c THEN c[k] ELSE PlainFile(2)]

\* What a name of the working directory may hold in the direct calls: a
\* regular file or nothing, and at a, a.ben and a-1.ben also a directory.
NapContents ==
  {c \in [NapNames -> {NoEntry, PlainFile(1), Directory}] :
     \A n \in NapNames : c[n] = Directory => n \in {A_BARE, A_BEN, A_1_BEN}}

\* The trees of the direct calls: a directory a may hold the file a/x.
NapFilesystems ==
  {Tree(Holding(Restrict(t.c), t.inner), t.s) :
     t \in {u \in [c : NapContents, s : NapSiblings, inner : BOOLEAN] :
              u.inner => u.c[A_BARE] = Directory}}

NapTargets ==
  {RelPath(n) : n \in NapNames}
    \cup {AbsPath(A_BEN), RelPath(A_ZIP), CwdPath, UpPath(DIR), RootPath,
          RelPath(<<".", ".">>), InnerPath}

SafeReplaceSources ==
  {RelPath(A_BARE), RelPath(A_BEN), RelPath(A_ZIP), UpPath(DIR), UpPath(DIR_1)}

SafeReplaceTargets ==
  {RelPath(A_BEN), RelPath(A_ZIP), CwdPath, UpPath(DIR), RootPath,
   RelPath(<<".", ".">>), InnerPath}

InitNap ==
  /\ fs \in NapFilesystems
  /\ fs0 = fs
  /\ fsLog = <<>>
  /\ args = [paths |-> <<>>, pattern |-> <<>>, to |-> EXT_BEN,
             force |-> FALSE, no_verify |-> FALSE, dry_run |-> FALSE, fault |-> "none"]
  /\ pc = "nap"
  /\ files = <<>>
  /\ idx = 1
  /\ out = <<>>
  /\ oks = <<>>
  /\ overall_ok = TRUE
  /\ exit = -1
  /\ passed = <<>>
  /\ nap = NoNap

\* The call next_available_path(target) on the directory.
NapCall ==
  /\ pc = "nap"
  /\ \E target \in NapTargets :
       LET r == next_available_path(target, fs)
       IN  nap' = [op |-> "next_available_path", src |-> NoPath, target |-> target,
                   overwrite |-> FALSE,
                   raised |-> IF r.raised THEN "ValueError" ELSE "",
                   errno |-> "", result |-> r.path]
  /\ pc' = "returned"
  /\ UNCHANGED <<fs, fs0, fsLog, args, files, idx, out, oks, overall_ok, exit, passed>>

\* The call safe_replace(src, dst, overwrite) on the directory.
SafeReplaceCall ==
  /\ pc = "nap"
  /\ \E src \in SafeReplaceSources, dst \in SafeReplaceTargets, overwrite \in BOOLEAN :
       LET r == safe_replace(src, dst, overwrite, fs)
       IN  /\ nap' = [op |-> "safe_replace", src |-> src, target |-> dst,
                      overwrite |-> overwrite, raised |-> r.raised,
                      errno |-> r.errno, result |-> r.path]
           /\ fs' = r.fs
  /\ pc' = "returned"
  /\ UNCHANGED <<fs0, fsLog, args, files, idx, out, oks, overall_ok, exit, passed>>

NextNap == NapCall \/ SafeReplaceCall

SpecNap == InitNap /\ [][NextNap]_vars

\* ================================================================== claims

Range(s) == {s[i] : i \in DOMAIN s}

\* The working directory right after the k-th call of change_extension.
After(k) == IF k < Len(fsLog) THEN fsLog[k + 1] ELSE fs

Before(k) == fsLog[k]

Verify == ~args.no_verify

ExtOk == ~ensure_dot_prefix(args.to).raised

\* The naive destination of the k-th call: its path with the final suffix
\* replaced by the normalized target extension.
NaiveDst(k) == WithSuffix(passed[k].path, ensure_dot_prefix(args.to).ext).path

\* The k-th call was on a regular file that got past the extension
\* normalization and the verification gate and has a naive destination.
PassedChecks(k) ==
  /\ passed[k].entry.kind = "file"
  /\ ExtOk
  /\ ~(Verify /\ ~passed[k].entry.zip)
  /\ ~WithSuffix(passed[k].path, ensure_dot_prefix(args.to).ext).raised

InMain == pc \in {"loop", "done", "raised"}

\* ---- C1
\* C1: with --dry-run the working directory is, at every moment of the run and
\* for every flag combination and target extension, exactly what it was before
\* the run: same names, same entry at each name, after every one of the
\* repeated calls of change_extension.
C1_DryRunNeverMutates ==
  args.dry_run => (fs = fs0 /\ \A k \in 1..Len(fsLog) : fsLog[k] = fs0)

\* A finished dry run that previewed at least two files, one of them a forced
\* overwrite of an existing destination.
C1_Witness ==
  /\ args.dry_run
  /\ pc = "done"
  /\ Len(out) >= 2
  /\ \E k \in 1..Len(out) : out[k].text = "Would rename" /\ out[k].note = "will overwrite"

\* ---- C2
\* The k-th call renamed its source to stem-i.ext for the smallest i >= 1 whose
\* name was free, and the message notes it.  keepSelf: whether the clause "the
\* pre-existing destination keeps its path and its content" is also demanded
\* when the naive destination is the source itself.
ConflictSafe(k, keepSelf) ==
  LET src == passed[k].path.name
      dst == NaiveDst(k)
      b   == Before(k)
      a   == After(k)
  IN  /\ k <= Len(oks)
      /\ oks[k]
      /\ \E i \in 1..(Cardinality(DOMAIN b) + 1) :
           LET c == Candidate(dst, i).path.name
           IN  /\ \A j \in 1..(i - 1) : Candidate(dst, j).path.name \in DOMAIN b
               /\ c \notin DOMAIN b
               /\ c \in DOMAIN a
               /\ a[c] = b[src]
               /\ out[k].text = "Renamed"
               /\ out[k].dst = c
               /\ out[k].note = "renamed to avoid conflict"
      /\ src \notin DOMAIN a
      /\ (keepSelf \/ dst.name # src) => (dst.name \in DOMAIN a /\ a[dst.name] = b[dst.name])

ConflictCase(k) ==
  /\ ~args.force
  /\ ~args.dry_run
  /\ PassedChecks(k)
  /\ Exists(NaiveDst(k), Before(k))

\* C2 as stated: without --force, a checked file whose naive destination
\* exists is renamed to the next free stem-i.ext, the source path is gone, the
\* message notes the adjusted name, and the pre-existing destination keeps its
\* path and content.
C2_Original ==
  InMain => \A k \in 1..Len(passed) : ConflictCase(k) => ConflictSafe(k, TRUE)

\* C2 amended: the same, where the pre-existing destination keeps its path and
\* content whenever it is another path than the source; when the naive
\* destination is the source itself (the file already carries the target
\* extension) the file simply moves to the next free stem-i.ext.
C2_ConflictSafeRename ==
  InMain => \A k \in 1..Len(passed) : ConflictCase(k) => ConflictSafe(k, FALSE)

\* A call whose naive destination a.ben and first candidate a-1.ben both
\* existed: the source went to a-2.ben and a.ben is another path.
C2_Witness ==
  /\ InMain
  /\ \E k \in 1..Len(passed) :
       /\ ConflictCase(k)
       /\ NaiveDst(k).name # passed[k].path.name
       /\ k <= Len(out)
       /\ out[k].dst = A_2_BEN

\* ---- C3
\* The post-state of a forced rename of the k-th call's source onto its naive
\* destination: the destination holds the source's entry, the source path is
\* gone and no other name appeared.
Replaced(k) ==
  LET src == passed[k].path.name
      dst == NaiveDst(k).name
      b   == Before(k)
      a   == After(k)
  IN  /\ k <= Len(oks)
      /\ oks[k]
      /\ dst \in DOMAIN a
      /\ a[dst] = b[src]
      /\ src \notin DOMAIN a
      /\ DOMAIN a = (DOMAIN b \ {src}) \cup {dst}
      /\ \A n \in DOMAIN a \ {dst} : a[n] = b[n]
      /\ out[k].text = (IF dst \in DOMAIN b THEN "Renamed (overwrote)" ELSE "Renamed")
      /\ out[k].dst = dst
      /\ out[k].note = ""

ForceCase(k) == args.force /\ ~args.dry_run /\ PassedChecks(k)

\* C3 as stated: with --force a checked file replaces its destination (or is
\* renamed to exactly that path when it is free), the source path is removed,
\* and no numeric-suffixed path is created.
C3_Original ==
  InMain => \A k \in 1..Len(passed) : ForceCase(k) => Replaced(k)

\* C3 amended: that holds when the destination is free or is a regular file
\* other than the source; when the destination is the source itself the call
\* succeeds and changes nothing (the source path stays); when the destination
\* is a directory the replace fails with an OS error returned as (False,
\* message) and nothing changes.  In no case is a numeric-suffixed path created.
C3_OverwriteSemantics ==
  InMain =>
    \A k \in 1..Len(passed) :
      ForceCase(k) =>
        LET src == passed[k].path.name
            dst == NaiveDst(k).name
            b   == Before(k)
        IN  /\ DOMAIN After(k) \subseteq DOMAIN b \cup {dst}
            /\ IF dst = src
               THEN /\ k <= Len(oks) /\ oks[k]
                    /\ After(k) = b
                    /\ out[k].text = "Renamed (overwrote)"
               ELSE IF dst \in DOMAIN b /\ b[dst].kind = "dir"
               THEN /\ k <= Len(oks) /\ ~oks[k]
                    /\ After(k) = b
                    /\ out[k].text = "Error renaming"
               ELSE Replaced(k)

\* A forced call whose destination was a regular file other than the source
\* and got replaced.
C3_Witness ==
  /\ InMain
  /\ \E k \in 1..Len(oks) :
       /\ ForceCase(k)
       /\ NaiveDst(k).name # passed[k].path.name
       /\ NaiveDst(k).name \in DOMAIN Before(k)
       /\ Before(k)[NaiveDst(k).name].kind = "file"
       /\ out[k].text = "Renamed (overwrote)"

\* ---- C4
\* The same directory with the ZIP validity of the regular file at `name`
\* inverted.
FlipZip(f, name) ==
  [n \in DOMAIN f |-> IF n = name THEN [f[n] EXCEPT !.zip = ~f[n].zip] ELSE f[n]]

\* Two outcomes of change_extension that agree on everything but ZIP validity.
SameButZip(r1, r2) ==
  /\ r1.raised = r2.raised
  /\ r1.ok = r2.ok
  /\ r1.msg = r2.msg
  /\ DOMAIN r1.fs = DOMAIN r2.fs
  /\ \A n \in DOMAIN r1.fs : r1.fs[n].id = r2.fs[n].id /\ r1.fs[n].kind = r2.fs[n].kind

\* With --no-verify no call is skipped for ZIP invalidity, and the outcome of
\* the call about to be made does not depend on the file's ZIP validity.
NoVerifyIgnoresZip ==
  args.no_verify =>
    /\ \A k \in 1..Len(out) : out[k].text # "Skip: not a valid ZIP"
    /\ (pc = "loop" /\ idx <= Len(files) /\ IsFile(files[idx], fs)) =>
         SameButZip(
           change_extension(files[idx], args.to, Verify, args.force, args.dry_run, fs),
           change_extension(files[idx], args.to, Verify, args.force, args.dry_run,
                            FlipZip(fs, files[idx].name)))

NonZipUnderVerify(k) == Verify /\ passed[k].entry.kind = "file" /\ ~passed[k].entry.zip

Skipped(k) ==
  /\ k <= Len(oks)
  /\ ~oks[k]
  /\ out[k].text = "Skip: not a valid ZIP"
  /\ After(k) = Before(k)

\* C4 as stated: under verification every regular file that is not a valid
\* ZIP is skipped (success False, no mutation, batch not aborted); under
\* --no-verify ZIP validity has no influence.
C4_Original ==
  InMain =>
    /\ \A k \in 1..Len(passed) : NonZipUnderVerify(k) => Skipped(k)
    /\ NoVerifyIgnoresZip

\* C4 amended: under verification a regular file that is not a valid ZIP is
\* skipped provided the target extension is non-empty after trimming; with an
\* empty extension the ValueError of ensure_dot_prefix is raised before the
\* verification and ends the run (still without any mutation).  Under
\* --no-verify ZIP validity has no influence.
C4_VerificationGate ==
  InMain =>
    /\ \A k \in 1..Len(passed) :
         NonZipUnderVerify(k) =>
           IF ExtOk THEN Skipped(k)
           ELSE k > Len(oks) /\ pc = "raised" /\ fs = Before(k)
    /\ NoVerifyIgnoresZip

\* A non-ZIP file was skipped under verification and the batch went on to a
\* later file.
C4_Witness ==
  /\ InMain
  /\ \E k \in 1..Len(passed) :
       NonZipUnderVerify(k) /\ ExtOk /\ Skipped(k) /\ k < Len(oks)

\* ---- C5
Ended == pc \in {"done", "raised", "exited"}

\* The status of an ended process is 2 exactly when no positional path and no
\* --pattern value was given (and then nothing was touched and the engine
\* never called); otherwise it is 0 exactly when the run got to its end with
\* every outcome successful, and 1 otherwise.
StatusByInputs ==
  /\ (exit = 2) <=> (args.paths = <<>> /\ args.pattern = <<>>)
  /\ exit = 2 => (fs = fs0 /\ passed = <<>>)
  /\ exit # 2 =>
       /\ exit \in {0, 1}
       /\ (exit = 0) <=> (pc # "raised" /\ \A k \in 1..Len(oks) : oks[k])

\* A preview is a successful outcome, a skip or rename error is not.
OutcomeFlags ==
  InMain =>
    \A k \in 1..Len(oks) :
      /\ out[k].text = "Would rename" => oks[k]
      /\ out[k].text \in {"Skip: not a file", "Skip: not a valid ZIP", "Error renaming"}
           => ~oks[k]

\* C5 as stated: the exit status of every ended process is 2 exactly when no
\* input was supplied (and then no file is touched), otherwise 0 if and only
\* if every processed file's outcome was successful, 1 otherwise.
C5_Original ==
  /\ ~Ended => exit = -1
  /\ Ended => StatusByInputs
  /\ OutcomeFlags

\* C5 amended: that is the exit status for every command line argparse
\* accepts.  A command line argparse rejects (unknown option, stray
\* positional, option without its value) ends with status 2 whatever inputs
\* it names, and -h/--help ends with status 0 even with no input; in both
\* cases nothing is touched and the engine never called.
C5_ExitStatus ==
  /\ ~Ended => exit = -1
  /\ Ended =>
       IF args.fault = "none" THEN pc # "exited" /\ StatusByInputs
       ELSE /\ pc = "exited"
            /\ exit = (IF args.fault = "help" THEN 0 ELSE 2)
            /\ fs = fs0
            /\ passed = <<>>
  /\ OutcomeFlags

\* A finished run that exits 1 after a failed outcome followed by a
\* successful one.
C5_Witness ==
  /\ pc = "done"
  /\ exit = 1
  /\ \E k \in 1..Len(oks) : ~oks[k] /\ k < Len(oks) /\ oks[Len(oks)]

\* ---- C6
\* The final component of a token as it is typed.
TokenName(item) == OsSplit(item).tail

\* No input token matches any existing name of the working directory.
NoneResolves ==
  \A i \in 1..Len(Inputs) :
    \A n \in Names(fs0) :
      ~(TokenName(Inputs[i]) = n
          \/ (HasMagic(Inputs[i]) /\ GlobMatches(TokenName(Inputs[i]), n)))

\* C6: when inputs are given and none resolves to a file, main prints "No
\* files matched the provided paths/patterns.", exits 1, touches nothing and
\* never calls the Rename Engine.
C6_ResolutionMiss ==
  (pc = "done" /\ Inputs # <<>> /\ NoneResolves) =>
    /\ out = <<NoMatchMsg>>
    /\ exit = 1
    /\ fs = fs0
    /\ passed = <<>>

\* ---- C7
\* The normalized paths a token contributes, whatever the listing order.
MatchSet(item) ==
  LET hits == IF HasMagic(item)
              THEN {AbsPath(n) : n \in {m \in Names(fs0) : GlobMatches(TokenName(item), m)}}
              ELSE {Resolve(p, fs0).path : p \in {q \in {PathOf(item)} : Exists(q, fs0)}}
  IN  IF hits = {} THEN {PathOf(item)} ELSE hits

\* What each token contributes.
MatchSets == [i \in 1..Len(Inputs) |-> MatchSet(Inputs[i])]

\* The first token that contributes path p, ms[i] being what token i
\* contributes.
FirstToken(p, ms) ==
  CHOOSE i \in DOMAIN ms : p \in ms[i] /\ \A j \in 1..(i - 1) : p \notin ms[j]

\* The token each of the paths is first contributed by.
FirstTokens(paths, ms) == [i \in DOMAIN paths |-> FirstToken(paths[i], ms)]

Increasing(s) == \A i, j \in DOMAIN s : i < j => s[i] <= s[j]

\* expand_inputs returned each contributed path once, in first-seen order,
\* every file that existed before the run once and under its resolved
\* spelling, and main passes the k-th resolved path to the k-th call.
ExpandedOnceOf(ms) ==
  /\ \A i, j \in 1..Len(files) : i # j => files[i] # files[j]
  /\ Range(files) = UNION Range(ms)
  /\ Increasing(FirstTokens(files, ms))
  /\ \A i \in 1..Len(files) :
       Exists(files[i], fs0) =>
         /\ files[i].abs
         /\ \A j \in 1..Len(files) : i # j => files[i].name # files[j].name
  /\ Len(passed) <= Len(files)
  /\ \A k \in 1..Len(passed) : passed[k].path = files[k]

ExpandedOnce == ExpandedOnceOf(MatchSets)

\* No regular file (told by its content identity) is passed to the Rename
\* Engine twice in the run.
NoFileTwice ==
  \A j, k \in 1..Len(passed) :
    (j # k /\ passed[j].entry.kind = "file" /\ passed[k].entry.kind = "file")
      => passed[j].entry.id # passed[k].entry.id

\* C7 as stated: the resolved list holds no path twice, every existing file
\* once at its first occurrence, and so no file is passed to the Rename Engine
\* twice in one run.
C7_Original ==
  (InMain /\ Inputs # <<>>) => (ExpandedOnce /\ NoFileTwice)

\* C7 amended: the resolved list holds no path twice and every file existing
\* at expansion time once, at the position of its first occurrence, so no
\* resolved path is passed to the Rename Engine twice; a file that an earlier
\* rename of the run moved onto the path of a later entry is still passed again
\* under that path.
C7_ExpandDedup ==
  (InMain /\ Inputs # <<>>) => ExpandedOnce

\* Two tokens reached the same existing file and the finished run processed
\* it as one entry.
C7_Witness ==
  /\ pc = "done"
  /\ Len(Inputs) = 2
  /\ Inputs[1] # Inputs[2]
  /\ MatchSet(Inputs[1]) \cap MatchSet(Inputs[2]) # {}
  /\ Len(files) = 1
  /\ IsFile(files[1], fs0)
  /\ Len(passed) = 1

\* ---- C8
\* Every printed line is about the resolved file of its position; an
\* unsuccessful outcome is a skip or an OS-level failure that left the
\* directory as it was just before that call, so with the earlier renames in
\* place.
FailuresReturned ==
  /\ Len(out) = Len(oks)
  /\ \A k \in 1..Len(passed) : passed[k].path = files[k]
  /\ \A k \in 1..Len(out) :
       /\ out[k].path = files[k]
       /\ ~oks[k] =>
            /\ After(k) = Before(k)
            /\ out[k].text \in {"Skip: not a file", "Skip: not a valid ZIP", "Error renaming"}

\* change_extension was called on every resolved file and one line was
\* printed for each.
EveryFileHandled == Len(passed) = Len(files) /\ Len(out) = Len(files)

\* The k-th call was on a regular file and raised the ValueError of
\* ensure_dot_prefix (line 75) or, past the verification, that of with_suffix
\* (line 81).
ExtensionRejected(k) ==
  /\ passed[k].entry.kind = "file"
  /\ \/ ~ExtOk
     \/ /\ ~(Verify /\ ~passed[k].entry.zip)
        /\ WithSuffix(passed[k].path, ensure_dot_prefix(args.to).ext).raised

\* C8 as stated: a skip or a failed rename is returned without raising and
\* without a change for that file, and the batch goes on: once the run has
\* ended, change_extension has been called on every resolved file after it
\* and exactly one line per resolved file has been printed.
C8_Original ==
  (InMain /\ Inputs # <<>>) =>
    /\ FailuresReturned
    /\ \A k \in 1..Len(out) :
         ~oks[k] => /\ pc = "loop" => (idx = Len(passed) + 1 /\ Len(passed) = Len(out))
                    /\ pc # "loop" => EveryFileHandled

\* C8 amended: a skip or a failed rename is returned without raising and
\* without a change for that file, and main goes on with the next resolved
\* file.  A run that returns has called change_extension on every resolved
\* file and printed one line for each.  A run ends before that only by the
\* ValueError of a rejected target extension, raised by the call on a regular
\* file: that call prints no line and changes nothing, the files after it are
\* never passed, the status is 1 and the earlier renames stay in place.
C8_BatchContinuation ==
  (InMain /\ Inputs # <<>>) =>
    /\ FailuresReturned
    /\ pc = "loop" => (idx = Len(passed) + 1 /\ Len(passed) = Len(out))
    /\ pc = "done" => EveryFileHandled
    /\ pc = "raised" =>
         /\ Len(passed) = Len(out) + 1
         /\ ExtensionRejected(Len(passed))
         /\ fs = Before(Len(passed))
         /\ exit = 1

\* A run in which a rename failed at the OS level, a later path was skipped
\* and a still later file was renamed successfully.
C8_Witness ==
  /\ pc = "done"
  /\ \E i, j, k \in 1..Len(out) :
       /\ i < j /\ j < k
       /\ out[i].text = "Error renaming"
       /\ out[j].text = "Skip: not a file"
       /\ oks[k]

\* ---- C9
NapCalled == nap.op = "next_available_path"

\* The call returned stem-i.ext for the smallest i >= 1 whose path does not
\* exist, a path that differs from the target and does not exist.
FirstFree ==
  /\ nap.raised = ""
  /\ nap.result # nap.target
  /\ ~Exists(nap.result, fs)
  /\ \E i \in 1..(Cardinality(DOMAIN fs) + 1) :
       /\ nap.result = Candidate(nap.target, i).path
       /\ \A j \in 1..(i - 1) : Exists(Candidate(nap.target, j).path, fs)

\* C9 as stated: a direct call next_available_path(p) returns p itself when p
\* does not exist; for every p that exists it returns stem-i.ext for the
\* smallest i >= 1 whose path does not exist; the directory is as before the
\* call.
C9_Original ==
  NapCalled =>
    /\ fs = fs0
    /\ IF ~Exists(nap.target, fs)
       THEN nap.raised = "" /\ nap.result = nap.target
       ELSE FirstFree

\* C9 amended: the same for every existing p that has a final name component
\* (the absolute path of the working directory and the path '..' among
\* them); for an existing p without one (the relative path '.' and the root
\* '/') the call raises ValueError and returns nothing.  The directory is as
\* before the call.
C9_NextAvailablePath ==
  NapCalled =>
    /\ fs = fs0
    /\ IF ~Exists(nap.target, fs)
       THEN nap.raised = "" /\ nap.result = nap.target
       ELSE IF nap.target.name = <<>>
       THEN nap.raised = "ValueError"
       ELSE FirstFree

\* A call on an existing path whose first MaxSuffix candidates all existed.
C9_Witness ==
  /\ NapCalled
  /\ Exists(nap.target, fs)
  /\ nap.raised = ""
  /\ nap.result = Candidate(nap.target, MaxSuffix + 1).path

\* ---- C10
\* C10: without --force, at every moment of the run the directory holds as
\* many names as before the run, every regular file that existed before the
\* run is at exactly one name with its content and ZIP validity, and every
\* directory is where it was.
C10_NoDataLoss ==
  (InMain /\ ~args.force) =>
    /\ Cardinality(DOMAIN fs) = Cardinality(DOMAIN fs0)
    /\ \A n0 \in DOMAIN fs0 :
         IF fs0[n0].kind = "file"
         THEN Cardinality({n \in DOMAIN fs : fs[n] = fs0[n0]}) = 1
         ELSE n0 \in DOMAIN fs /\ fs[n0] = fs0[n0]

\* Two files of one batch with the same naive destination a.ben were both
\* renamed: the first to a.ben, the second to a-1.ben.
C10_Witness ==
  /\ pc = "done"
  /\ ~args.force
  /\ \E j, k \in 1..Len(out) :
       /\ j < k
       /\ oks[j] /\ oks[k]
       /\ out[j].text = "Renamed" /\ out[j].dst = A_BEN
       /\ out[k].text = "Renamed" /\ out[k].dst = A_1_BEN
       /\ NaiveDst(j) = NaiveDst(k)

====
